---- MODULE Spec2Model ----
(***************************************************************************)
(* Model of the streaming path of the Anthropic API gateway:               *)
(*   src/app/streaming.py  SSEManager.stream_message_events,               *)
(*                         SSEManager._format_event,                       *)
(*                         create_streaming_response                       *)
(*   src/main.py           lifespan, stream_message                        *)
(*                                                                         *)
(* Python values are tagged records.  An attribute list or a dict is a     *)
(* sequence of <<name, value>> pairs, which keeps the insertion order that *)
(* json.dumps writes.  An expression that raises evaluates to a value of   *)
(* class "raise"; it propagates through every construction that uses it.   *)
(***************************************************************************)
EXTENDS Integers, Sequences, FiniteSets, TLC

VARIABLES
    client,      \* main.py async_anthropic_client: "None" or "set"
    app,         \* "init", "serving", "failed" (lifespan), "unmanaged" (no lifespan)
    pc,          \* per request: position of the handler / the generator
    status,      \* per request: HTTP status sent (0: none yet)
    handler,     \* per request: except clause of stream_message that was taken
    reqParams,   \* per request: the parameters of the MessageRequest
    calls,       \* per request: the parameters of every messages.stream(...) call
    upstream,    \* per request: "none", "open", "closed" (the async with scope)
    pulled,      \* per request: events the async for has received
    npulls,      \* per request: number of __anext__ calls made on the upstream
    out,         \* per request: frames the generator has yielded
    ending,      \* per request: how the generator ended ("" while it runs)
    fault,       \* per request: where an exception was raised in the relay, and which
    fmtEvent,    \* normalizer harness: the event handed to _format_event
    fmtResult,   \* normalizer harness: what _format_event returned or raised
    syncClient,  \* main.py anthropic_client: "None" or "set"
    apiRequest,  \* the MessageRequest body the message endpoints are called with
    unary        \* the last response of a non-streaming endpoint

vars == <<client, app, pc, status, handler, reqParams, calls, upstream, pulled,
          npulls, out, ending, fault, fmtEvent, fmtResult, syncClient, apiRequest,
          unary>>

apiVars == <<syncClient, apiRequest, unary>>

relayVars == <<client, app, pc, status, handler, reqParams, calls, upstream,
               pulled, npulls, out, ending, fault>>

(***************************************************************************)
(* Bounds                                                                  *)
(***************************************************************************)
\* longest upstream event sequence
MaxEvents == 3

\* concurrent stream requests
Reqs == {"r1", "r2"}

(***************************************************************************)
(* Python values                                                           *)
(***************************************************************************)
PyNone == [cls |-> "None"]

PyStr(s) == [cls |-> "str", s |-> s]

PyInt(n) == [cls |-> "int", i |-> n]

PyList(l) == [cls |-> "list", elems |-> l]

PyDict(pairs) == [cls |-> "dict", items |-> pairs]

PyObj(pairs) == [cls |-> "obj", attrs |-> pairs]

\* a raised exception: its class and its message (str(e)); the message of an
\* AttributeError is shortened to the name of the missing attribute
Raise(exc, msg) == [cls |-> "raise", exc |-> exc, msg |-> msg]

IsRaise(v) == v.cls = "raise"

\* str(x) of an object: an opaque text determined by the object
str(v) == [cls |-> "str", repr |-> v]

Pairs(v) == IF v.cls = "obj" THEN v.attrs ELSE IF v.cls = "dict" THEN v.items ELSE <<>>

Keys(pairs) == [k \in 1..Len(pairs) |-> pairs[k][1]]

HasKey(pairs, a) == \E k \in 1..Len(pairs) : pairs[k][1] = a

Lookup(pairs, a) == pairs[CHOOSE k \in 1..Len(pairs) : pairs[k][1] = a][2]

\* hasattr(o, a) for a data attribute a
hasattr(o, a) == o.cls = "obj" /\ HasKey(o.attrs, a)

\* o.a: AttributeError when the attribute is missing (None and dict included)
Attr(o, a) ==
    IF IsRaise(o) THEN o
    ELSE IF hasattr(o, a) THEN Lookup(o.attrs, a)
    ELSE Raise("AttributeError", a)

\* getattr(o, a, default)
getattr(o, a, default) ==
    IF IsRaise(o) THEN o
    ELSE IF hasattr(o, a) THEN Lookup(o.attrs, a)
    ELSE default

\* o.get(key, default): only a mapping has get
DictGet(o, key, default) ==
    IF IsRaise(o) THEN o
    ELSE IF o.cls = "dict"
         THEN IF HasKey(o.items, key) THEN Lookup(o.items, key) ELSE default
    ELSE Raise("AttributeError", "get")

\* bool(o)
Truthy(o) ==
    CASE o.cls = "None" -> FALSE
      [] o.cls = "dict" -> Len(o.items) > 0
      [] o.cls = "list" -> Len(o.elems) > 0
      [] o.cls = "int"  -> o.i # 0
      [] o.cls = "str"  -> ("repr" \in DOMAIN o) \/ o.s # ""
      [] OTHER -> TRUE

\* a dict display {k1: v1, ...}: the values are evaluated in order, and the
\* first one that raises ends the evaluation
Build(pairs) ==
    IF \E k \in 1..Len(pairs) : IsRaise(pairs[k][2])
    THEN pairs[CHOOSE k \in 1..Len(pairs) :
                   /\ IsRaise(pairs[k][2])
                   /\ \A j \in 1..(k-1) : ~IsRaise(pairs[j][2])][2]
    ELSE PyDict(pairs)

RECURSIVE model_dump(_)
\* pydantic's o.model_dump(): the fields as a dict, nested models dumped too
model_dump(o) ==
    IF IsRaise(o) THEN o
    ELSE IF o.cls = "obj"
         THEN PyDict([k \in 1..Len(o.attrs) |->
                        <<o.attrs[k][1],
                          IF o.attrs[k][2].cls = "obj"
                          THEN model_dump(o.attrs[k][2]) ELSE o.attrs[k][2]>>])
    ELSE Raise("AttributeError", "model_dump")

(***************************************************************************)
(* SSEManager._format_event, one operator per branch                       *)
(***************************************************************************)
FormatText(event) ==
    Build(<< <<"type", PyStr("text")>>,
             <<"text", Attr(event, "text")>>,
             <<"snapshot", getattr(event, "snapshot", PyStr(""))>> >>)

FormatInputJson(event) ==
    Build(<< <<"type", PyStr("input_json")>>,
             <<"partial_json", getattr(event, "partial_json", PyStr(""))>>,
             <<"snapshot", getattr(event, "snapshot", PyStr(""))>> >>)

FormatContentBlockStart(event) ==
    LET content_block == Attr(event, "content_block") IN
    Build(<< <<"type", PyStr("content_block_start")>>,
             <<"index", Attr(event, "index")>>,
             <<"content_block",
               Build(<< <<"type", Attr(content_block, "type")>>,
                        <<"text", getattr(content_block, "text", PyStr(""))>>,
                        <<"id", getattr(content_block, "id", PyNone)>>,
                        <<"name", getattr(content_block, "name", PyNone)>>,
                        <<"input", getattr(content_block, "input", PyNone)>> >>)>> >>)

FormatContentBlockDelta(event) ==
    LET delta == Attr(event, "delta") IN
    Build(<< <<"type", PyStr("content_block_delta")>>,
             <<"index", Attr(event, "index")>>,
             <<"delta",
               Build(<< <<"type", Attr(delta, "type")>>,
                        <<"text", getattr(delta, "text", PyStr(""))>>,
                        <<"partial_json", getattr(delta, "partial_json", PyStr(""))>> >>)>> >>)

FormatContentBlockStop(event) ==
    Build(<< <<"type", PyStr("content_block_stop")>>,
             <<"index", Attr(event, "index")>>,
             <<"content_block",
               IF hasattr(event, "content_block")
               THEN model_dump(Attr(event, "content_block"))
               ELSE PyNone>> >>)

ZeroUsage ==
    PyDict(<< <<"input_tokens", PyInt(0)>>,
              <<"output_tokens", PyInt(0)>>,
              <<"cache_creation_input_tokens", PyInt(0)>>,
              <<"cache_read_input_tokens", PyInt(0)>> >>)

FormatMessageStart(event) ==
    LET message == Attr(event, "message")
        usage   == Attr(message, "usage")
    IN
    Build(<< <<"type", PyStr("message_start")>>,
             <<"message",
               Build(<< <<"id", Attr(message, "id")>>,
                        <<"type", Attr(message, "type")>>,
                        <<"role", Attr(message, "role")>>,
                        <<"model", Attr(message, "model")>>,
                        <<"content", PyList(<<>>)>>,
                        <<"stop_reason", PyNone>>,
                        <<"stop_sequence", PyNone>>,
                        <<"usage",
                          IF IsRaise(message) THEN message
                          ELSE IF hasattr(message, "usage") /\ Truthy(usage)
                          THEN Build(<<
                            <<"input_tokens", getattr(usage, "input_tokens", PyInt(0))>>,
                            <<"output_tokens", getattr(usage, "output_tokens", PyInt(0))>>,
                            <<"cache_creation_input_tokens",
                              getattr(usage, "cache_creation_input_tokens", PyInt(0))>>,
                            <<"cache_read_input_tokens",
                              getattr(usage, "cache_read_input_tokens", PyInt(0))>> >>)
                          ELSE ZeroUsage>> >>)>> >>)

FormatMessageDelta(event) ==
    LET delta == Attr(event, "delta") IN
    Build(<< <<"type", PyStr("message_delta")>>,
             <<"delta",
               Build(<< <<"stop_reason", getattr(delta, "stop_reason", PyNone)>>,
                        <<"stop_sequence", getattr(delta, "stop_sequence", PyNone)>> >>)>>,
             <<"usage",
               IF hasattr(event, "usage")
               THEN Build(<< <<"output_tokens",
                               DictGet(getattr(event, "usage", PyDict(<<>>)),
                                       "output_tokens", PyInt(0))>> >>)
               ELSE PyDict(<< <<"output_tokens", PyInt(0)>> >>)>> >>)

FormatMessageStop(event) ==
    Build(<< <<"type", PyStr("message_stop")>>,
             <<"message",
               IF hasattr(event, "message")
               THEN model_dump(Attr(event, "message"))
               ELSE PyNone>> >>)

\* a ping branch that carries the type literal of its neighbour
FormatPingAsStop(event) ==
    PyDict(<< <<"type", PyStr("message_stop")>> >>)

FormatPing(event) ==
    PyDict(<< <<"type", PyStr("ping")>> >>)

\* a fallback that echoes the kind and loses the event
FormatOtherNoData(event) ==
    PyDict(<< <<"type", Attr(event, "type")>> >>)

\* the else branch: a kind that is not enumerated
FormatOther(event) ==
    PyDict(<< <<"type", Attr(event, "type")>>, <<"data", str(event)>> >>)

\* the event has no type attribute
FormatUnknown(event) ==
    PyDict(<< <<"type", PyStr("unknown")>>, <<"data", str(event)>> >>)

_format_event(event) ==
    IF hasattr(event, "type")
    THEN LET event_type == Attr(event, "type") IN
         CASE event_type = PyStr("text") -> FormatText(event)
           [] event_type = PyStr("input_json") -> FormatInputJson(event)
           [] event_type = PyStr("content_block_start") -> FormatContentBlockStart(event)
           [] event_type = PyStr("content_block_delta") -> FormatContentBlockDelta(event)
           [] event_type = PyStr("content_block_stop") -> FormatContentBlockStop(event)
           [] event_type = PyStr("message_start") -> FormatMessageStart(event)
           [] event_type = PyStr("message_delta") -> FormatMessageDelta(event)
           [] event_type = PyStr("message_stop") -> FormatMessageStop(event)
           [] event_type = PyStr("ping") -> FormatPing(event)
           [] OTHER -> FormatOther(event)
    ELSE FormatUnknown(event)

(***************************************************************************)
(* json.dumps and the SSE frame                                            *)
(***************************************************************************)
RECURSIVE Serializable(_)
\* json.dumps accepts None, int, str, list and dict; anything else is a TypeError
Serializable(v) ==
    CASE v.cls \in {"None", "int", "str"} -> TRUE
      [] v.cls = "list" -> \A k \in 1..Len(v.elems) : Serializable(v.elems[k])
      [] v.cls = "dict" -> \A k \in 1..Len(v.items) : Serializable(v.items[k][2])
      [] OTHER -> FALSE

RECURSIVE JsonTokens(_)
RECURSIVE JsonMembers(_, _)
RECURSIVE JsonElements(_, _)
\* the elements of a list from position k on, separated by commas
JsonElements(elems, k) ==
    IF k > Len(elems) THEN <<>>
    ELSE (IF k > 1 THEN <<[tok |-> ","]>> ELSE <<>>)
         \o JsonTokens(elems[k])
         \o JsonElements(elems, k + 1)

\* the members of a dict from position k on, separated by commas
JsonMembers(pairs, k) ==
    IF k > Len(pairs) THEN <<>>
    ELSE (IF k > 1 THEN <<[tok |-> ","]>> ELSE <<>>)
         \o <<[tok |-> "key", s |-> pairs[k][1]], [tok |-> ":"]>>
         \o JsonTokens(pairs[k][2])
         \o JsonMembers(pairs, k + 1)

\* the JSON text of a serializable value, as its sequence of tokens
JsonTokens(v) ==
    CASE v.cls = "None" -> <<[tok |-> "null"]>>
      [] v.cls = "int"  -> <<[tok |-> "int", i |-> v.i]>>
      [] v.cls = "str"  -> IF "repr" \in DOMAIN v
                           THEN <<[tok |-> "str", repr |-> v.repr]>>
                           ELSE <<[tok |-> "str", s |-> v.s]>>
      [] v.cls = "list" -> <<[tok |-> "["]>> \o JsonElements(v.elems, 1) \o <<[tok |-> "]"]>>
      [] v.cls = "dict" -> <<[tok |-> "{"]>> \o JsonMembers(v.items, 1) \o <<[tok |-> "}"]>>

\* json.dumps(v)
json_dumps(v) ==
    IF Serializable(v) THEN [cls |-> "json", toks |-> JsonTokens(v)]
    ELSE Raise("TypeError", "not JSON serializable")

\* f"data: {json}\n\n"
SSEFrame(json) ==
    [cls |-> "frame", prefix |-> "data: ", json |-> json.toks, suffix |-> "\n\n"]

\* lines 27-28 for one event: the frame, or the exception raised on the way
EventFrame(event) ==
    LET event_data == _format_event(event) IN
    IF IsRaise(event_data) THEN event_data
    ELSE LET json == json_dumps(event_data) IN
         IF IsRaise(json) THEN json ELSE SSEFrame(json)

\* an error event that names the class of the exception and adds its message
ErrorFrameWithClass(e) ==
    SSEFrame(json_dumps(PyDict(<< <<"type", PyStr("error")>>,
                                  <<"error", PyStr(e.exc)>>,
                                  <<"message", PyStr(e.msg)>> >>)))

\* lines 35-39: the frame of the error event for exception e
ErrorFrame(e) ==
    SSEFrame(json_dumps(PyDict(<< <<"type", PyStr("error")>>,
                                  <<"error", PyStr(e.msg)>> >>)))

(***************************************************************************)
(* Provider events: every kind, with optional and variant fields present,  *)
(* absent or null                                                          *)
(***************************************************************************)
\* an attribute that is absent or has one of the values
Opt(name, values) == {<<>>} \cup {<< <<name, v>> >> : v \in values}

TextBlock == PyObj(<< <<"type", PyStr("text")>>, <<"text", PyStr("Hi")>> >>)

ToolBlock ==
    PyObj(<< <<"type", PyStr("tool_use")>>, <<"id", PyStr("tu_1")>>,
             <<"name", PyStr("calc")>>, <<"input", PyDict(<<>>)>> >>)

\* a block whose input is an object that json.dumps cannot encode
OpaqueBlock ==
    PyObj(<< <<"type", PyStr("tool_use")>>, <<"input", PyObj(<<>>)>> >>)

Blocks ==
    {TextBlock, ToolBlock, OpaqueBlock, PyObj(<< <<"type", PyStr("text")>> >>), PyObj(<<>>)}

Deltas ==
    { PyObj(<< <<"type", PyStr("text_delta")>>, <<"text", PyStr("Hi")>> >>),
      PyObj(<< <<"type", PyStr("input_json_delta")>>, <<"partial_json", PyStr("{")>> >>),
      PyObj(<< <<"type", PyStr("text_delta")>> >>),
      PyObj(<<>>) }

Usages ==
    { PyObj(a \o b \o c \o d) :
        a \in Opt("input_tokens", {PyNone, PyInt(5)}),
        b \in Opt("output_tokens", {PyInt(1)}),
        c \in Opt("cache_creation_input_tokens", {PyNone, PyInt(2)}),
        d \in Opt("cache_read_input_tokens", {PyInt(3)}) }

MessageHead ==
    << <<"id", PyStr("msg_1")>>, <<"type", PyStr("message")>>,
       <<"role", PyStr("assistant")>>, <<"model", PyStr("m")>> >>

Messages ==
    { PyObj(MessageHead \o u) : u \in Opt("usage", Usages \cup {PyNone}) }
    \cup { PyObj(<< <<"id", PyStr("msg_1")>> >>) }

EndTurnDelta ==
    PyObj(<< <<"stop_reason", PyStr("end_turn")>>, <<"stop_sequence", PyNone>> >>)

StopDeltas == { EndTurnDelta, PyObj(<<>>) }

\* message_delta usage: a mapping, or the SDK's structured object
DeltaUsages ==
    { PyDict(<< <<"output_tokens", PyInt(7)>> >>), PyDict(<<>>),
      PyObj(<< <<"output_tokens", PyInt(7)>> >>) }

Kind(k) == << <<"type", PyStr(k)>> >>

TextEvents ==
    { PyObj(Kind("text") \o t \o s) :
        t \in Opt("text", {PyStr("Hi")}), s \in Opt("snapshot", {PyStr("Hi")}) }

InputJsonEvents ==
    { PyObj(Kind("input_json") \o j \o s) :
        j \in Opt("partial_json", {PyStr("{")}), s \in Opt("snapshot", {PyStr("{")}) }

BlockStartEvents ==
    { PyObj(Kind("content_block_start") \o i \o b) :
        i \in Opt("index", {PyInt(0)}), b \in Opt("content_block", Blocks \cup {PyNone}) }

BlockDeltaEvents ==
    { PyObj(Kind("content_block_delta") \o i \o d) :
        i \in Opt("index", {PyInt(0)}), d \in Opt("delta", Deltas \cup {PyNone}) }

BlockStopEvents ==
    { PyObj(Kind("content_block_stop") \o i \o b) :
        i \in Opt("index", {PyInt(0)}),
        b \in Opt("content_block", {TextBlock, ToolBlock, PyNone}) }

MessageStartEvents ==
    { PyObj(Kind("message_start") \o m) : m \in Opt("message", Messages \cup {PyNone}) }

MessageDeltaEvents ==
    { PyObj(Kind("message_delta") \o d \o u) :
        d \in Opt("delta", StopDeltas \cup {PyNone}),
        u \in Opt("usage", DeltaUsages \cup {PyNone}) }

MessageStopEvents ==
    { PyObj(Kind("message_stop") \o m) :
        m \in Opt("message", {PyObj(MessageHead), PyNone}) }

PingEvents == { PyObj(Kind("ping")) }

\* kinds outside the enumeration, a null kind included
OtherEvents ==
    { PyObj(Kind("thinking") \o t) : t \in Opt("text", {PyStr("Hi")}) }
    \cup { PyObj(Kind("error")) }
    \cup { PyObj(<< <<"type", PyNone>> >>) }

\* events that expose no type attribute
UntypedEvents ==
    { PyObj(<<>>), PyObj(<< <<"text", PyStr("Hi")>> >>),
      PyDict(<< <<"type", PyStr("text")>> >>) }

EnumeratedKinds ==
    {"text", "input_json", "content_block_start", "content_block_delta",
     "content_block_stop", "message_start", "message_delta", "message_stop", "ping"}

Events ==
    TextEvents \cup InputJsonEvents \cup BlockStartEvents \cup BlockDeltaEvents
    \cup BlockStopEvents \cup MessageStartEvents \cup MessageDeltaEvents
    \cup MessageStopEvents \cup PingEvents \cup OtherEvents \cup UntypedEvents

(***************************************************************************)
(* The normalizer on its own: one call of _format_event on any event       *)
(***************************************************************************)
Pending == [cls |-> "pending"]

NoFault == [site |-> "none"]

\* no non-streaming endpoint has answered yet
NoResponse ==
    [endpoint |-> "none", arg |-> PyNone, status |-> 0, body |-> PyNone, sent |-> <<>>,
     outcome |-> PyNone]

ApiIdle ==
    /\ syncClient = "None"
    /\ unary = NoResponse

RelayIdle ==
    /\ client = "None"
    /\ app = "init"
    /\ pc = [r \in Reqs |-> "idle"]
    /\ status = [r \in Reqs |-> 0]
    /\ handler = [r \in Reqs |-> "none"]
    /\ reqParams = [r \in Reqs |-> PyNone]
    /\ calls = [r \in Reqs |-> <<>>]
    /\ upstream = [r \in Reqs |-> "none"]
    /\ pulled = [r \in Reqs |-> <<>>]
    /\ npulls = [r \in Reqs |-> 0]
    /\ out = [r \in Reqs |-> <<>>]
    /\ ending = [r \in Reqs |-> ""]
    /\ fault = [r \in Reqs |-> NoFault]

InitFmt ==
    /\ RelayIdle
    /\ ApiIdle
    /\ apiRequest = PyNone
    /\ fmtEvent \in Events
    /\ fmtResult = Pending

Format ==
    /\ fmtResult = Pending
    /\ fmtResult' = _format_event(fmtEvent)
    /\ UNCHANGED <<fmtEvent, relayVars, apiVars>>

NextFmt == Format

SpecFmt == InitFmt /\ [][NextFmt]_vars

(***************************************************************************)
(* main.py: the request model and the parameters stream_message forwards   *)
(***************************************************************************)
OneMessage == PyList(<<PyDict(<< <<"role", PyStr("user")>> >>)>>)

\* MessageRequest with every optional field left at its default
PlainRequest ==
    [model |-> PyStr("m"), messages |-> OneMessage, max_tokens |-> PyInt(1024),
     temperature |-> PyNone, top_p |-> PyNone, top_k |-> PyNone,
     stop_sequences |-> PyNone, system |-> PyNone, metadata |-> PyNone,
     tools |-> PyNone, tool_choice |-> PyNone]

\* MessageRequest with a zero temperature, a system prompt and empty tools
TunedRequest ==
    [PlainRequest EXCEPT !.temperature = PyInt(0), !.system = PyStr("be brief"),
                         !.tools = PyList(<<>>)]

StreamRequests == {PlainRequest, TunedRequest}

\* "if request.x is not None" that tests the truth of the value instead
IfNotNoneAsTruthy(name, v) == IF Truthy(v) THEN << <<name, v>> >> ELSE <<>>

\* "if request.x is not None: params[x] = request.x"
IfNotNone(name, v) == IF v # PyNone THEN << <<name, v>> >> ELSE <<>>

\* "if request.x: params[x] = request.x"
IfTruthy(name, v) == IF Truthy(v) THEN << <<name, v>> >> ELSE <<>>

\* stream_message, lines 286-308
StreamParams(request) ==
    << <<"model", request.model>>, <<"messages", request.messages>>,
       <<"max_tokens", request.max_tokens>> >>
    \o IfNotNone("temperature", request.temperature)
    \o IfNotNone("top_p", request.top_p)
    \o IfNotNone("top_k", request.top_k)
    \o IfTruthy("stop_sequences", request.stop_sequences)
    \o IfTruthy("system", request.system)
    \o IfTruthy("metadata", request.metadata)
    \o IfTruthy("tools", request.tools)
    \o IfTruthy("tool_choice", request.tool_choice)

(***************************************************************************)
(* main.py lifespan: the two global clients                                *)
(***************************************************************************)
\* a startup that constructs the synchronous client only
LifespanStartupSyncOnly ==
    /\ app = "init"
    /\ app' = "serving"
    /\ syncClient' = "set"
    /\ UNCHANGED <<client, pc, status, handler, reqParams, calls, upstream, pulled,
                   npulls, out, ending, fault, fmtEvent, fmtResult, apiRequest, unary>>

\* startup with ANTHROPIC_API_KEY set: both clients are constructed
LifespanStartup ==
    /\ app = "init"
    /\ app' = "serving"
    /\ syncClient' = "set"
    /\ client' = "set"
    /\ UNCHANGED <<pc, status, handler, reqParams, calls, upstream, pulled, npulls,
                   out, ending, fault, fmtEvent, fmtResult, apiRequest, unary>>

\* the application object is served by a host that does not run the lifespan:
\* the two globals keep their initial None
ServeWithoutLifespan ==
    /\ app = "init"
    /\ app' = "unmanaged"
    /\ UNCHANGED <<client, pc, status, handler, reqParams, calls, upstream, pulled,
                   npulls, out, ending, fault, fmtEvent, fmtResult, apiVars>>

\* startup without the key: ValueError, the application does not start
LifespanNoKey ==
    /\ app = "init"
    /\ app' = "failed"
    /\ UNCHANGED <<client, pc, status, handler, reqParams, calls, upstream, pulled,
                   npulls, out, ending, fault, fmtEvent, fmtResult, apiVars>>

(***************************************************************************)
(* main.py stream_message with create_streaming_response                   *)
(***************************************************************************)
\* Exception subclasses; cancellation and generator exit are not among them
IsException(e) == e.exc \notin {"CancelledError", "GeneratorExit"}

\* a handler that opens the upstream call itself, inside its try block, so
\* that a failure to open reaches its "except anthropic.APIError" clause
stream_message_eager(r, request) ==
    /\ pc[r] = "idle"
    /\ app \in {"serving", "unmanaged"}
    /\ reqParams' = [reqParams EXCEPT ![r] = request]
    /\ \/ /\ client = "None"
          /\ pc' = [pc EXCEPT ![r] = "rejected"]
          /\ status' = [status EXCEPT ![r] = 500]
          /\ handler' = [handler EXCEPT ![r] = "internal"]
          /\ UNCHANGED <<calls, fault>>
       \/ /\ client = "set"
          /\ pc' = [pc EXCEPT ![r] = "created"]
          /\ status' = [status EXCEPT ![r] = 200]
          /\ UNCHANGED <<handler, calls, fault>>
       \/ /\ client = "set"
          /\ pc' = [pc EXCEPT ![r] = "rejected"]
          /\ status' = [status EXCEPT ![r] = 400]
          /\ handler' = [handler EXCEPT ![r] = "apierror"]
          /\ calls' = [calls EXCEPT ![r] = Append(@, StreamParams(request))]
          /\ fault' = [fault EXCEPT ![r] =
                         [site |-> "open", exc |-> Raise("APIError", "overloaded")]]
    /\ UNCHANGED <<client, app, upstream, pulled, npulls, out, ending,
                   fmtEvent, fmtResult, apiVars>>

\* the whole handler: it returns the StreamingResponse around the generator,
\* which has not run yet, or raises the HTTPException of its except clause
stream_message(r, request) ==
    /\ pc[r] = "idle"
    /\ app \in {"serving", "unmanaged"}
    /\ reqParams' = [reqParams EXCEPT ![r] = request]
    /\ IF client = "None"
       THEN \* line 283 raises HTTPException, an Exception: line 317 catches it
            /\ pc' = [pc EXCEPT ![r] = "rejected"]
            /\ status' = [status EXCEPT ![r] = 500]
            /\ handler' = [handler EXCEPT ![r] = "internal"]
       ELSE /\ pc' = [pc EXCEPT ![r] = "created"]
            /\ status' = [status EXCEPT ![r] = 200]
            /\ UNCHANGED handler
    /\ UNCHANGED <<client, app, calls, upstream, pulled, npulls, out, ending, fault,
                   fmtEvent, fmtResult, apiVars>>

(***************************************************************************)
(* streaming.py SSEManager.stream_message_events, resumption by resumption *)
(***************************************************************************)
UpstreamErrors ==
    { Raise("APIError", "overloaded"), Raise("ConnectionResetError", ""),
      Raise("ConnectionReset", "ConnectionReset") }

\* line 24: messages.stream(**params) is called and entered
OpenOk(r) ==
    /\ pc[r] = "created"
    /\ calls' = [calls EXCEPT ![r] = Append(@, StreamParams(reqParams[r]))]
    /\ upstream' = [upstream EXCEPT ![r] = "open"]
    /\ pc' = [pc EXCEPT ![r] = "pull"]
    /\ UNCHANGED <<client, app, status, handler, reqParams, pulled, npulls, out,
                   ending, fault, fmtEvent, fmtResult, apiVars>>

\* a relay that calls messages.stream again when entering it failed
OpenFailReopen(r, e) ==
    /\ pc[r] = "created"
    /\ calls' = [calls EXCEPT ![r] =
                   Append(Append(@, StreamParams(reqParams[r])), StreamParams(reqParams[r]))]
    /\ upstream' = [upstream EXCEPT ![r] = "open"]
    /\ pc' = [pc EXCEPT ![r] = "pull"]
    /\ UNCHANGED <<client, app, status, handler, reqParams, pulled, npulls, out,
                   ending, fault, fmtEvent, fmtResult, apiVars>>

\* line 24 raises e: lines 33-39 yield the error frame
OpenFail(r, e) ==
    /\ pc[r] = "created"
    /\ IsException(e)
    /\ calls' = [calls EXCEPT ![r] = Append(@, StreamParams(reqParams[r]))]
    /\ fault' = [fault EXCEPT ![r] = [site |-> "open", exc |-> e]]
    /\ out' = [out EXCEPT ![r] = Append(@, ErrorFrame(e))]
    /\ pc' = [pc EXCEPT ![r] = "erryield"]
    /\ UNCHANGED <<client, app, status, handler, reqParams, upstream, pulled, npulls,
                   ending, fmtEvent, fmtResult, apiVars>>

\* line 25 delivers event e; lines 27-28 yield its frame, or raise, and then
\* the async with is left and lines 33-39 yield the error frame
PullEvent(r, e) ==
    /\ pc[r] = "pull"
    /\ Len(pulled[r]) < MaxEvents
    /\ npulls' = [npulls EXCEPT ![r] = @ + 1]
    /\ pulled' = [pulled EXCEPT ![r] = Append(@, e)]
    /\ LET frame == EventFrame(e) IN
       IF IsRaise(frame)
       THEN /\ upstream' = [upstream EXCEPT ![r] = "closed"]
            /\ fault' = [fault EXCEPT ![r] = [site |-> "event", exc |-> frame]]
            /\ out' = [out EXCEPT ![r] = Append(@, ErrorFrame(frame))]
            /\ pc' = [pc EXCEPT ![r] = "erryield"]
       ELSE /\ out' = [out EXCEPT ![r] = Append(@, frame)]
            /\ pc' = [pc EXCEPT ![r] = "yield"]
            /\ UNCHANGED <<upstream, fault>>
    /\ UNCHANGED <<client, app, status, handler, reqParams, calls, ending,
                   fmtEvent, fmtResult, apiVars>>

\* a relay that swallows a failed pull and pulls again
PullFailRetry(r, e) ==
    /\ pc[r] = "pull"
    /\ npulls' = [npulls EXCEPT ![r] = @ + 1]
    /\ fault' = [fault EXCEPT ![r] = [site |-> "pull", exc |-> e]]
    /\ UNCHANGED <<client, app, pc, status, handler, reqParams, calls, upstream,
                   pulled, out, ending, fmtEvent, fmtResult, apiVars>>

\* a relay whose failure reaches every open stream: each gets the error frame
\* and is closed
PullFailShared(r, e) ==
    /\ pc[r] = "pull"
    /\ IsException(e)
    /\ npulls' = [npulls EXCEPT ![r] = @ + 1]
    /\ upstream' = [q \in Reqs |-> IF upstream[q] = "open" THEN "closed" ELSE upstream[q]]
    /\ fault' = [fault EXCEPT ![r] = [site |-> "pull", exc |-> e]]
    /\ out' = [q \in Reqs |->
                 IF upstream[q] = "open" THEN Append(out[q], ErrorFrame(e)) ELSE out[q]]
    /\ pc' = [q \in Reqs |-> IF upstream[q] = "open" THEN "erryield" ELSE pc[q]]
    /\ UNCHANGED <<client, app, status, handler, reqParams, calls, pulled, ending,
                   fmtEvent, fmtResult, apiVars>>

\* line 25 raises e: the async with is left, lines 33-39 yield the error frame
PullFail(r, e) ==
    /\ pc[r] = "pull"
    /\ IsException(e)
    /\ npulls' = [npulls EXCEPT ![r] = @ + 1]
    /\ upstream' = [upstream EXCEPT ![r] = "closed"]
    /\ fault' = [fault EXCEPT ![r] = [site |-> "pull", exc |-> e]]
    /\ out' = [out EXCEPT ![r] = Append(@, ErrorFrame(e))]
    /\ pc' = [pc EXCEPT ![r] = "erryield"]
    /\ UNCHANGED <<client, app, status, handler, reqParams, calls, pulled, ending,
                   fmtEvent, fmtResult, apiVars>>

\* a relay that closes the stream with an end marker of its own
PullExhaustedEndMarker(r) ==
    /\ pc[r] = "pull"
    /\ npulls' = [npulls EXCEPT ![r] = @ + 1]
    /\ upstream' = [upstream EXCEPT ![r] = "closed"]
    /\ out' = [out EXCEPT ![r] =
                 Append(@, SSEFrame(json_dumps(PyDict(<< <<"type", PyStr("done")>> >>))))]
    /\ pc' = [pc EXCEPT ![r] = "done"]
    /\ ending' = [ending EXCEPT ![r] = "exhausted"]
    /\ UNCHANGED <<client, app, status, handler, reqParams, calls, pulled,
                   fault, fmtEvent, fmtResult, apiVars>>

\* line 25 ends the loop: the async with is left and the generator returns
PullExhausted(r) ==
    /\ pc[r] = "pull"
    /\ npulls' = [npulls EXCEPT ![r] = @ + 1]
    /\ upstream' = [upstream EXCEPT ![r] = "closed"]
    /\ pc' = [pc EXCEPT ![r] = "done"]
    /\ ending' = [ending EXCEPT ![r] = "exhausted"]
    /\ UNCHANGED <<client, app, status, handler, reqParams, calls, pulled, out,
                   fault, fmtEvent, fmtResult, apiVars>>

\* a relay without the pacing sleep: resumed after line 28 it pulls at once
ResumeAfterFrameNoPacing(r) ==
    /\ pc[r] = "yield"
    /\ pc' = [pc EXCEPT ![r] = "pull"]
    /\ UNCHANGED <<client, app, status, handler, reqParams, calls, upstream, pulled,
                   npulls, out, ending, fault, fmtEvent, fmtResult, apiVars>>

\* resumed after line 28: line 31 starts the pacing sleep
ResumeAfterFrame(r) ==
    /\ pc[r] = "yield"
    /\ pc' = [pc EXCEPT ![r] = "sleep"]
    /\ UNCHANGED <<client, app, status, handler, reqParams, calls, upstream, pulled,
                   npulls, out, ending, fault, fmtEvent, fmtResult, apiVars>>

\* line 31 returns: back to line 25
SleepDone(r) ==
    /\ pc[r] = "sleep"
    /\ pc' = [pc EXCEPT ![r] = "pull"]
    /\ UNCHANGED <<client, app, status, handler, reqParams, calls, upstream, pulled,
                   npulls, out, ending, fault, fmtEvent, fmtResult, apiVars>>

\* resumed after line 39: the generator returns
ResumeAfterError(r) ==
    /\ pc[r] = "erryield"
    /\ pc' = [pc EXCEPT ![r] = "done"]
    /\ ending' = [ending EXCEPT ![r] = "error"]
    /\ UNCHANGED <<client, app, status, handler, reqParams, calls, upstream, pulled,
                   npulls, out, fault, fmtEvent, fmtResult, apiVars>>

\* a relay whose upstream call is not scoped: closing the generator leaves it open
DisconnectLeak(r) ==
    /\ pc[r] \in {"created", "pull", "yield", "sleep", "erryield"}
    /\ pc' = [pc EXCEPT ![r] = "done"]
    /\ ending' = [ending EXCEPT ![r] = "disconnected"]
    /\ UNCHANGED <<client, app, status, handler, reqParams, calls, upstream, pulled,
                   npulls, out, fault, fmtEvent, fmtResult, apiVars>>

\* the client goes away: the generator is closed (GeneratorExit at a yield)
\* or cancelled (CancelledError at an await); neither is an Exception, so
\* line 33 does not catch it, and leaving the async with releases the call
Disconnect(r) ==
    /\ pc[r] \in {"created", "pull", "yield", "sleep", "erryield"}
    /\ upstream' = [upstream EXCEPT ![r] = IF @ = "open" THEN "closed" ELSE @]
    /\ pc' = [pc EXCEPT ![r] = "done"]
    /\ ending' = [ending EXCEPT ![r] = "disconnected"]
    /\ UNCHANGED <<client, app, status, handler, reqParams, calls, pulled, npulls,
                   out, fault, fmtEvent, fmtResult, apiVars>>

\* the events the relay is driven with
RelayEvents ==
    { PyObj(Kind("text") \o << <<"text", PyStr("Hi")>> >>),
      PyObj(Kind("ping")),
      PyObj(Kind("error")),
      PyObj(<<>>),
      PyObj(Kind("message_delta")
            \o << <<"delta", EndTurnDelta>>,
                  <<"usage", PyDict(<< <<"output_tokens", PyInt(7)>> >>)>> >>),
      PyObj(Kind("message_delta")
            \o << <<"delta", EndTurnDelta>>,
                  <<"usage", PyObj(<< <<"output_tokens", PyInt(7)>> >>)>> >>),
      PyObj(Kind("content_block_start")
            \o << <<"index", PyInt(0)>>, <<"content_block", OpaqueBlock>> >>) }

\* the requests the relay specification drives
SoloReqs == {"r1"}

Init ==
    /\ RelayIdle
    /\ ApiIdle
    /\ apiRequest = PyNone
    /\ fmtEvent = PyNone
    /\ fmtResult = Pending

\* one stream request, from the handler to the end of its generator, with
\* the request bodies, upstream events and upstream errors it is driven with
RelayWith(r, requests, events, errors) ==
    \/ \E request \in requests : stream_message(r, request)
    \/ OpenOk(r)
    \/ \E e \in errors : OpenFail(r, e)
    \/ \E e \in events : PullEvent(r, e)
    \/ \E e \in errors : PullFail(r, e)
    \/ PullExhausted(r)
    \/ ResumeAfterFrame(r)
    \/ SleepDone(r)
    \/ ResumeAfterError(r)
    \/ Disconnect(r)

Relay(r) == RelayWith(r, StreamRequests, RelayEvents, UpstreamErrors)

Next ==
    \/ LifespanStartup
    \/ LifespanNoKey
    \/ ServeWithoutLifespan
    \/ \E r \in SoloReqs : Relay(r)

Spec == Init /\ [][Next]_vars

(***************************************************************************)
(* Two stream requests served concurrently                                 *)
(***************************************************************************)
\* the upstream events of the call of request r: each carries the name of
\* its request; the message_delta cannot be normalized
ConcEvents(r) ==
    { PyObj(Kind("text") \o << <<"text", PyStr(r)>> >>),
      PyObj(Kind("message_delta")
            \o << <<"delta", EndTurnDelta>>, <<"request", PyStr(r)>>,
                  <<"usage", PyObj(<< <<"output_tokens", PyInt(7)>> >>)>> >>) }

ConcErrors == {Raise("APIError", "overloaded")}

NextConc ==
    \/ LifespanStartup
    \/ \E r \in Reqs : RelayWith(r, {PlainRequest}, ConcEvents(r), ConcErrors)

SpecConc == Init /\ [][NextConc]_vars

(***************************************************************************)
(* The non-streaming endpoints: main.py, models_api.py, batches_api.py     *)
(***************************************************************************)
PyBool(b) == [cls |-> "bool", b |-> b]

\* fastapi.HTTPException(status_code, detail)
HTTPException(status_code, detail) ==
    [cls |-> "raise", exc |-> "HTTPException", status_code |-> status_code,
     detail |-> detail]

\* anthropic.APIError and its subclasses
IsAPIError(e) == e.exc \in {"APIError", "RateLimitError"}

\* str(e): the message of an exception; "<status_code>: <detail>" for an
\* HTTPException
ExcStr(e) ==
    IF e.exc = "HTTPException"
    THEN [cls |-> "str", status_code |-> e.status_code, sep |-> ": ", detail |-> e.detail]
    ELSE PyStr(e.msg)

\* f"Internal server error: {str(e)}"
InternalError(e) ==
    [cls |-> "str", literal |-> "Internal server error: ", str |-> ExcStr(e)]

\* the response FastAPI sends for a raised HTTPException
ErrorResponse(status_code, detail) ==
    [status |-> status_code, body |-> PyDict(<< <<"detail", detail>> >>)]

\* the response for a returned model
OkResponse(model) == [status |-> 200, body |-> model]

\* except clauses that answer every failure with the internal-error status
ExceptClausesAllInternal(result) ==
    IF ~IsRaise(result) THEN OkResponse(result)
    ELSE ErrorResponse(500, InternalError(result))

\* "except anthropic.APIError as e" and "except Exception as e" around the
\* body of a handler; result is what the body returned or raised
ExceptClauses(result) ==
    IF ~IsRaise(result) THEN OkResponse(result)
    ELSE IF IsAPIError(result) THEN ErrorResponse(400, ExcStr(result))
    ELSE ErrorResponse(500, InternalError(result))

\* except clauses of get_model_info without "except HTTPException: raise":
\* the 404 reaches "except Exception" and is raised again as a 500
ModelInfoExceptClausesNoReraise(result) ==
    IF ~IsRaise(result) THEN OkResponse(result)
    ELSE ErrorResponse(500, InternalError(result))

\* get_model_info: "except HTTPException: raise" and "except Exception as e"
ModelInfoExceptClauses(result) ==
    IF ~IsRaise(result) THEN OkResponse(result)
    ELSE IF result.exc = "HTTPException"
         THEN ErrorResponse(result.status_code, result.detail)
    ELSE ErrorResponse(500, InternalError(result))

\* list_models: "except Exception as e" only
ListModelsExceptClauses(result) ==
    IF ~IsRaise(result) THEN OkResponse(result)
    ELSE ErrorResponse(500, InternalError(result))

\* "if not client: raise HTTPException(...)" of the handlers of the
\* synchronous client
ClientMissing == HTTPException(500, PyStr("Anthropic client not initialized"))

\* the response models of models_api.py and batches_api.py, and
\* TokenCountResponse: success, data, error
Envelope(data) ==
    IF IsRaise(data) THEN data
    ELSE PyDict(<< <<"success", PyBool(TRUE)>>, <<"data", data>>, <<"error", PyNone>> >>)

\* MessageResponse: success, data, metadata, error
MessageResponse(data, metadata) ==
    IF IsRaise(data) THEN data
    ELSE IF IsRaise(metadata) THEN metadata
    ELSE PyDict(<< <<"success", PyBool(TRUE)>>, <<"data", data>>,
                   <<"metadata", metadata>>, <<"error", PyNone>> >>)

\* the elements a for loop or a comprehension takes from v
Elems(v) == IF v.cls = "list" THEN v.elems ELSE <<>>

\* [f(x) for x in v], and the loops that append f(x) to a list; mapped is
\* f of each element of v, and the first one that raises ends the evaluation
Collect(v, mapped) ==
    IF IsRaise(v) THEN v
    ELSE IF v.cls # "list" THEN Raise("TypeError", "object is not iterable")
    ELSE IF \E k \in 1..Len(mapped) : IsRaise(mapped[k])
         THEN mapped[CHOOSE k \in 1..Len(mapped) :
                         /\ IsRaise(mapped[k])
                         /\ \A j \in 1..(k-1) : ~IsRaise(mapped[j])]
    ELSE PyList(mapped)

\* [x.model_dump() for x in v]
DumpEach(v) == Collect(v, [k \in 1..Len(Elems(v)) |-> model_dump(Elems(v)[k])])

\* what the handler records about one answered request
Answer(endpoint, arg, response, sent, outcome) ==
    [endpoint |-> endpoint, arg |-> arg, status |-> response.status, body |-> response.body,
     sent |-> sent, outcome |-> outcome]

\* a handler of the synchronous client: the check of the client, the
\* upstream call, and the conversion of what the body returned or raised;
\* tries is the set of (upstream outcome, result of the body) pairs
Handle(endpoint, arg, method, args, tries) ==
    /\ app \in {"serving", "unmanaged"}
    /\ IF syncClient = "None"
       THEN unary' = Answer(endpoint, arg, ExceptClauses(ClientMissing), <<>>, PyNone)
       ELSE \E t \in tries :
                unary' = Answer(endpoint, arg, ExceptClauses(t.result),
                                << <<method, args>> >>, t.outcome)
    /\ UNCHANGED <<relayVars, fmtEvent, fmtResult, syncClient, apiRequest>>

\* the body of a handler after its upstream call: an exception of the call
\* is the result, otherwise the response model built from what it returned
Try(outcome, response) ==
    [outcome |-> outcome, result |-> IF IsRaise(outcome) THEN outcome ELSE response]

\* what an upstream call of the synchronous client can raise
UnaryErrors ==
    { Raise("APIError", "overloaded"), Raise("RateLimitError", "rate limited"),
      Raise("ConnectionResetError", "") }

\* GET /health, main.py lines 162-169
health_check ==
    /\ app \in {"serving", "unmanaged"}
    /\ unary' = Answer("health_check", PyNone,
                       OkResponse(PyDict(<<
                           <<"status", PyStr("healthy")>>,
                           <<"version", PyStr("1.0.0")>>,
                           <<"clients_initialized",
                             PyBool(syncClient # "None" /\ client # "None")>> >>)),
                       <<>>, PyNone)
    /\ UNCHANGED <<relayVars, fmtEvent, fmtResult, syncClient, apiRequest>>

(***************************************************************************)
(* main.py create_message and count_tokens                                 *)
(***************************************************************************)
\* create_message, lines 178-204
CreateParams(request) ==
    << <<"model", request.model>>, <<"messages", request.messages>>,
       <<"max_tokens", request.max_tokens>> >>
    \o IfNotNone("temperature", request.temperature)
    \o IfNotNone("top_p", request.top_p)
    \o IfNotNone("top_k", request.top_k)
    \o IfTruthy("stop_sequences", request.stop_sequences)
    \o IfTruthy("system", request.system)
    \o IfTruthy("metadata", request.metadata)
    \o IfTruthy("tools", request.tools)
    \o IfTruthy("tool_choice", request.tool_choice)

\* a Message the upstream returns
MessageObj ==
    PyObj(<< <<"id", PyStr("msg_1")>>, <<"type", PyStr("message")>>,
             <<"role", PyStr("assistant")>>, <<"content", PyList(<<TextBlock>>)>>,
             <<"model", PyStr("m")>>, <<"stop_reason", PyStr("end_turn")>>,
             <<"stop_sequence", PyNone>>,
             <<"usage", PyObj(<< <<"input_tokens", PyInt(5)>>,
                                 <<"output_tokens", PyInt(7)>> >>)>> >>)

\* what messages.create can return or raise: a message, a message without
\* usage, a message without content, and the errors
CreateOutcomes ==
    { MessageObj,
      PyObj([k \in 1..7 |-> MessageObj.attrs[k]] \o << <<"usage", PyNone>> >>),
      PyObj(<< <<"id", PyStr("msg_1")>>, <<"type", PyStr("message")>>,
               <<"role", PyStr("assistant")>> >>) }
    \cup UnaryErrors

\* lines 217-232: the data of the MessageResponse
MessageData(message) ==
    Build(<< <<"id", Attr(message, "id")>>,
             <<"type", Attr(message, "type")>>,
             <<"role", Attr(message, "role")>>,
             <<"content", DumpEach(Attr(message, "content"))>>,
             <<"model", Attr(message, "model")>>,
             <<"stop_reason", Attr(message, "stop_reason")>>,
             <<"stop_sequence", Attr(message, "stop_sequence")>>,
             <<"usage",
               LET usage == Attr(message, "usage") IN
               IF IsRaise(usage) THEN usage
               ELSE IF Truthy(usage)
               THEN Build(<<
                 <<"input_tokens", getattr(usage, "input_tokens", PyNone)>>,
                 <<"output_tokens", getattr(usage, "output_tokens", PyNone)>>,
                 <<"cache_creation_input_tokens",
                   getattr(usage, "cache_creation_input_tokens", PyNone)>>,
                 <<"cache_read_input_tokens",
                   getattr(usage, "cache_read_input_tokens", PyNone)>> >>)
               ELSE PyNone>> >>)

\* lines 206-236 after the call returned message; line 210 reads
\* message.usage for the log before the response is built
CreateResponse(message) ==
    IF IsRaise(Attr(message, "usage")) THEN Attr(message, "usage")
    ELSE MessageResponse(
             MessageData(message),
             Build(<< <<"request_id", getattr(message, "_request_id", PyNone)>>,
                      <<"processing_time_ms", [cls |-> "int", elapsed |-> "process_time"]>> >>))

\* POST /api/v1/messages/create, lines 171-243
create_message ==
    Handle("create_message", apiRequest, "messages.create", PyDict(CreateParams(apiRequest)),
           {Try(o, CreateResponse(o)) : o \in CreateOutcomes})

\* what messages.count_tokens can return or raise
CountOutcomes ==
    { PyObj(<< <<"input_tokens", PyInt(5)>> >>), PyNone } \cup UnaryErrors

\* count_tokens, lines 252-258
CountParams(request) ==
    << <<"model", request.model>>, <<"messages", request.messages>> >>
    \o IfTruthy("tools", request.tools)

\* lines 262-269
CountResponse(count) ==
    Envelope(Build(<< <<"input_tokens", Attr(count, "input_tokens")>>,
                      <<"cache_creation_input_tokens",
                        getattr(count, "cache_creation_input_tokens", PyInt(0))>>,
                      <<"cache_read_input_tokens",
                        getattr(count, "cache_read_input_tokens", PyInt(0))>> >>))

\* POST /api/v1/messages/count-tokens, lines 245-276
count_tokens ==
    Handle("count_tokens", apiRequest, "messages.count_tokens", PyDict(CountParams(apiRequest)),
           {Try(o, CountResponse(o)) : o \in CountOutcomes})

(***************************************************************************)
(* models_api.py                                                           *)
(***************************************************************************)
ModelRecord(id, display_name, created_at) ==
    PyDict(<< <<"id", PyStr(id)>>, <<"type", PyStr("text")>>,
              <<"display_name", PyStr(display_name)>>,
              <<"created_at", PyStr(created_at)>> >>)

\* get_model_info, lines 29-61
model_info_map ==
    << <<"claude-3-5-sonnet-20241022",
         ModelRecord("claude-3-5-sonnet-20241022", "Claude 3.5 Sonnet", "2024-10-22T00:00:00Z")>>,
       <<"claude-3-5-haiku-20241022",
         ModelRecord("claude-3-5-haiku-20241022", "Claude 3.5 Haiku", "2024-10-22T00:00:00Z")>>,
       <<"claude-3-opus-20240229",
         ModelRecord("claude-3-opus-20240229", "Claude 3 Opus", "2024-02-29T00:00:00Z")>>,
       <<"claude-3-sonnet-20240229",
         ModelRecord("claude-3-sonnet-20240229", "Claude 3 Sonnet", "2024-02-29T00:00:00Z")>>,
       <<"claude-3-haiku-20240307",
         ModelRecord("claude-3-haiku-20240307", "Claude 3 Haiku", "2024-03-07T00:00:00Z")>> >>

\* list_models, lines 85-116
static_models ==
    << ModelRecord("claude-3-5-sonnet-20241022", "Claude 3.5 Sonnet", "2024-10-22T00:00:00Z"),
       ModelRecord("claude-3-5-haiku-20241022", "Claude 3.5 Haiku", "2024-10-22T00:00:00Z"),
       ModelRecord("claude-3-opus-20240229", "Claude 3 Opus", "2024-02-29T00:00:00Z"),
       ModelRecord("claude-3-sonnet-20240229", "Claude 3 Sonnet", "2024-02-29T00:00:00Z"),
       ModelRecord("claude-3-haiku-20240307", "Claude 3 Haiku", "2024-03-07T00:00:00Z") >>

\* the model ids the endpoint is called with
ModelIds ==
    { "claude-3-5-sonnet-20241022", "claude-3-5-haiku-20241022", "claude-3-opus-20240229",
      "claude-3-sonnet-20240229", "claude-3-haiku-20240307", "claude-2", "" }

\* f"Model {model_id} not found"
ModelNotFound(model_id) ==
    [cls |-> "str", literal |-> "Model ", model_id |-> model_id, tail |-> " not found"]

\* GET /api/v1/models/{model_id}: get_model_info, lines 23-75
get_model_info(model_id) ==
    /\ app \in {"serving", "unmanaged"}
    /\ LET result ==
               IF syncClient = "None" THEN ClientMissing
               ELSE IF ~HasKey(model_info_map, model_id)
                    THEN HTTPException(404, ModelNotFound(model_id))
               ELSE Envelope(Lookup(model_info_map, model_id))
       IN unary' = Answer("get_model_info", PyStr(model_id),
                          ModelInfoExceptClauses(result), <<>>, PyNone)
    /\ UNCHANGED <<relayVars, fmtEvent, fmtResult, syncClient, apiRequest>>

\* GET /api/v1/models: list_models, lines 77-125
list_models ==
    /\ app \in {"serving", "unmanaged"}
    /\ LET result == IF syncClient = "None" THEN ClientMissing
                     ELSE Envelope(PyList(static_models))
       IN unary' = Answer("list_models", PyNone, ListModelsExceptClauses(result),
                          <<>>, PyNone)
    /\ UNCHANGED <<relayVars, fmtEvent, fmtResult, syncClient, apiRequest>>

(***************************************************************************)
(* batches_api.py                                                          *)
(***************************************************************************)
\* a MessageBatch the upstream returns
BatchObj ==
    PyObj(<< <<"id", PyStr("batch_1")>>, <<"type", PyStr("message_batch")>>,
             <<"processing_status", PyStr("in_progress")>> >>)

\* what a batch call can return or raise
BatchOutcomes == {BatchObj, PyNone} \cup UnaryErrors

\* the batch ids and the request list the endpoints are called with
BatchIds == {"batch_1"}

BatchRequests == PyList(<<PyDict(<< <<"custom_id", PyStr("c1")>> >>)>>)

\* the dict built from a batch by create, retrieve, list and cancel
BatchData(batch) ==
    Build(<< <<"id", Attr(batch, "id")>>,
             <<"type", Attr(batch, "type")>>,
             <<"processing_status", getattr(batch, "processing_status", PyNone)>>,
             <<"request_counts", getattr(batch, "request_counts", PyNone)>>,
             <<"created_at", getattr(batch, "created_at", PyNone)>>,
             <<"expires_at", getattr(batch, "expires_at", PyNone)>>,
             <<"completed_at", getattr(batch, "completed_at", PyNone)>>,
             <<"archived_at", getattr(batch, "archived_at", PyNone)>> >>)

BatchResponse(batch) == Envelope(BatchData(batch))

\* a create_batch that calls the upstream before it looks at the client
create_batch_unchecked ==
    /\ app \in {"serving", "unmanaged"}
    /\ \E t \in {Try(o, BatchResponse(o)) : o \in BatchOutcomes} :
           unary' = Answer("create_batch", BatchRequests, ExceptClauses(t.result),
                           << <<"messages.batches.create", BatchRequests>> >>, t.outcome)
    /\ UNCHANGED <<relayVars, fmtEvent, fmtResult, syncClient, apiRequest>>

\* lines 43-70
create_batch ==
    Handle("create_batch", BatchRequests, "messages.batches.create", BatchRequests,
           {Try(o, BatchResponse(o)) : o \in BatchOutcomes})

\* lines 72-99
retrieve_batch(batch_id) ==
    Handle("retrieve_batch", PyStr(batch_id), "messages.batches.retrieve", PyStr(batch_id),
           {Try(o, BatchResponse(o)) : o \in BatchOutcomes})

\* what batches.list can return or raise: a page with its data
ListOutcomes ==
    { PyObj(<< <<"data", PyList(<<BatchObj>>)>> >>),
      PyObj(<< <<"data", PyList(<<>>)>> >>), PyNone } \cup UnaryErrors

ListResponse(batches) ==
    LET data == Attr(batches, "data") IN
    Envelope(Collect(data, [k \in 1..Len(Elems(data)) |-> BatchData(Elems(data)[k])]))

\* lines 101-132
list_batches(limit) ==
    Handle("list_batches", PyInt(limit), "messages.batches.list", PyInt(limit),
           {Try(o, ListResponse(o)) : o \in ListOutcomes})

\* lines 134-161
cancel_batch(batch_id) ==
    Handle("cancel_batch", PyStr(batch_id), "messages.batches.cancel", PyStr(batch_id),
           {Try(o, BatchResponse(o)) : o \in BatchOutcomes})

DeleteResponse(result) ==
    Envelope(Build(<< <<"id", Attr(result, "id")>>, <<"deleted", PyBool(TRUE)>> >>))

\* lines 163-184
delete_batch(batch_id) ==
    Handle("delete_batch", PyStr(batch_id), "messages.batches.delete", PyStr(batch_id),
           {Try(o, DeleteResponse(o)) : o \in BatchOutcomes})

\* one line of the results of a batch: succeeded, with its message
SucceededResult ==
    PyObj(<< <<"custom_id", PyStr("c1")>>,
             <<"result", PyObj(<< <<"type", PyStr("succeeded")>>,
                                  <<"message", MessageObj>> >>)>> >>)

\* one line of the results of a batch: errored, without a message
ErroredResult ==
    PyObj(<< <<"custom_id", PyStr("c2")>>,
             <<"result", PyObj(<< <<"type", PyStr("errored")>> >>)>> >>)

\* what batches.results can return or raise
ResultsOutcomes ==
    { PyList(<<SucceededResult, ErroredResult>>), PyList(<<PyNone>>) } \cup UnaryErrors

\* lines 199-217: the dict appended for one result
ResultData(result) ==
    Build(<< <<"custom_id", Attr(result, "custom_id")>>,
             <<"result",
               IF ~hasattr(result, "result") THEN PyNone
               ELSE LET inner   == Attr(result, "result")
                        message == Attr(inner, "message")
                        usage   == Attr(message, "usage")
                    IN
                    Build(<< <<"type", Attr(inner, "type")>>,
                             <<"message",
                               IF ~hasattr(inner, "message") THEN PyNone
                               ELSE Build(<<
                                 <<"id", Attr(message, "id")>>,
                                 <<"type", Attr(message, "type")>>,
                                 <<"role", Attr(message, "role")>>,
                                 <<"content", DumpEach(Attr(message, "content"))>>,
                                 <<"model", Attr(message, "model")>>,
                                 <<"stop_reason", Attr(message, "stop_reason")>>,
                                 <<"stop_sequence", Attr(message, "stop_sequence")>>,
                                 <<"usage",
                                   IF IsRaise(usage) THEN usage
                                   ELSE IF Truthy(usage)
                                   THEN Build(<<
                                     <<"input_tokens", getattr(usage, "input_tokens", PyNone)>>,
                                     <<"output_tokens", getattr(usage, "output_tokens", PyNone)>> >>)
                                   ELSE PyNone>> >>)>> >>)>> >>)

ResultsResponse(results) ==
    Envelope(Build(<< <<"results",
        Collect(results, [k \in 1..Len(Elems(results)) |-> ResultData(Elems(results)[k])])>> >>))

\* lines 186-229
get_batch_results(batch_id) ==
    Handle("get_batch_results", PyStr(batch_id), "messages.batches.results", PyStr(batch_id),
           {Try(o, ResultsResponse(o)) : o \in ResultsOutcomes})

(***************************************************************************)
(* The application with all its endpoints                                  *)
(***************************************************************************)
\* default of the limit query parameter of GET /api/v1/batches
DefaultLimit == 20

InitApi ==
    /\ RelayIdle
    /\ ApiIdle
    /\ apiRequest \in StreamRequests
    /\ fmtEvent = PyNone
    /\ fmtResult = Pending

NextApi ==
    \/ LifespanStartup
    \/ LifespanNoKey
    \/ ServeWithoutLifespan
    \/ health_check
    \/ create_message
    \/ count_tokens
    \/ stream_message("r1", apiRequest)
    \/ list_models
    \/ \E model_id \in ModelIds : get_model_info(model_id)
    \/ create_batch
    \/ \E batch_id \in BatchIds : retrieve_batch(batch_id)
    \/ list_batches(DefaultLimit)
    \/ \E batch_id \in BatchIds : cancel_batch(batch_id)
    \/ \E batch_id \in BatchIds : delete_batch(batch_id)
    \/ \E batch_id \in BatchIds : get_batch_results(batch_id)

SpecApi == InitApi /\ [][NextApi]_vars

(***************************************************************************)
(* create_message and stream_message side by side                         *)
(***************************************************************************)
\* the values of the optional fields of a MessageRequest: absent, zero or
\* empty, and set
ParamRequests ==
    { [PlainRequest EXCEPT !.temperature = t, !.top_p = p, !.top_k = k,
                           !.stop_sequences = ss, !.system = sy, !.metadata = md,
                           !.tools = tl, !.tool_choice = tc] :
        t \in {PyNone, PyInt(0)}, p \in {PyNone, PyInt(0)}, k \in {PyNone, PyInt(0)},
        ss \in {PyNone, PyList(<<>>), PyList(<<PyStr("END")>>)},
        sy \in {PyNone, PyStr(""), PyStr("be brief")},
        md \in {PyNone, PyDict(<<>>), PyDict(<< <<"user_id", PyStr("u1")>> >>)},
        tl \in {PyNone, PyList(<<>>), PyList(<<PyDict(<< <<"name", PyStr("calc")>> >>)>>)},
        tc \in {PyNone, PyDict(<<>>), PyDict(<< <<"type", PyStr("auto")>> >>)} }

InitParams ==
    /\ RelayIdle
    /\ ApiIdle
    /\ apiRequest \in ParamRequests
    /\ fmtEvent = PyNone
    /\ fmtResult = Pending

NextParams ==
    \/ LifespanStartup
    \/ create_message
    \/ stream_message("r1", apiRequest)
    \/ OpenOk("r1")

SpecParams == InitParams /\ [][NextParams]_vars

(***************************************************************************)
(* Properties of the relay                                                 *)
(***************************************************************************)
\* the frame 'data: <json>\n\n' around the JSON text of a normalized event
FrameOf(normalized) ==
    [cls |-> "frame", prefix |-> "data: ", json |-> JsonTokens(normalized),
     suffix |-> "\n\n"]

\* the terminal frame {type: "error", error: <message>}
IsErrorFrame(frame, e) ==
    frame = FrameOf(PyDict(<< <<"type", PyStr("error")>>, <<"error", PyStr(e.msg)>> >>))

EventKindIs(event, k) == hasattr(event, "type") /\ Attr(event, "type") = PyStr(k)

\* C1: an upstream sequence of N events pulled to exhaustion without failure
\* gives exactly N frames, the k-th being 'data: <json of the normalized k-th
\* event>\n\n', and nothing after them.
C1_ExhaustedStreamIsTheEventsInOrder ==
    \A r \in Reqs :
        ending[r] = "exhausted" =>
            /\ fault[r] = NoFault
            /\ Len(out[r]) = Len(pulled[r])
            /\ npulls[r] = Len(pulled[r]) + 1
            /\ \A k \in 1..Len(pulled[r]) :
                   out[r][k] = FrameOf(_format_event(pulled[r][k]))

C1_Witness ==
    /\ ending["r1"] = "exhausted"
    /\ Len(out["r1"]) = 2
    /\ pulled["r1"][1] # pulled["r1"][2]

\* C2: after a failure while opening, pulling or normalizing/encoding the
\* k-th event, the output is the frames of the k-1 earlier events in order
\* and then one error frame; nothing is pulled, opened or emitted after it.
C2_FailureEndsWithOneErrorFrame ==
    \A r \in Reqs :
        fault[r].site # "none" =>
            LET n == IF fault[r].site = "event"
                     THEN Len(pulled[r]) - 1 ELSE Len(pulled[r])
            IN /\ fault[r].site = "open" => n = 0
               /\ Len(out[r]) = n + 1
               /\ \A k \in 1..n : out[r][k] = FrameOf(_format_event(pulled[r][k]))
               /\ IsErrorFrame(out[r][n + 1], fault[r].exc)
               /\ npulls[r] = Len(pulled[r]) + (IF fault[r].site = "pull" THEN 1 ELSE 0)
               /\ Len(calls[r]) = 1
               /\ pc[r] \in {"erryield", "done"}

C2_Witness ==
    /\ fault["r1"].site = "event"
    /\ Len(pulled["r1"]) = 2
    /\ Len(out["r1"]) = 2
    /\ ending["r1"] = "error"

\* what the claim expects for usage.output_tokens of a message_delta event
ExpectedOutputTokens(event) ==
    IF ~hasattr(event, "usage") THEN PyInt(0)
    ELSE LET usage == Attr(event, "usage") IN
         IF HasKey(Pairs(usage), "output_tokens")
         THEN Lookup(Pairs(usage), "output_tokens") ELSE PyInt(0)

ExpectedMessageDelta(event) ==
    PyDict(<< <<"type", PyStr("message_delta")>>,
              <<"delta",
                PyDict(<< <<"stop_reason", getattr(Attr(event, "delta"), "stop_reason", PyNone)>>,
                          <<"stop_sequence",
                            getattr(Attr(event, "delta"), "stop_sequence", PyNone)>> >>)>>,
              <<"usage", PyDict(<< <<"output_tokens", ExpectedOutputTokens(event)>> >>)>> >>)

\* C4: a message_delta event, its usage absent, a mapping or a structured
\* object, is emitted as the message_delta frame with usage.output_tokens
\* from the event (0 when unavailable), and the stream does not end on it.
C4_MessageDeltaIsRelayed ==
    \A r \in Reqs : \A k \in 1..Len(pulled[r]) :
        EventKindIs(pulled[r][k], "message_delta") =>
            /\ out[r][k] = FrameOf(ExpectedMessageDelta(pulled[r][k]))
            /\ ~(fault[r].site = "event" /\ k = Len(pulled[r]))

\* C5: the upstream call is open only while the generator is inside the
\* async with; once the generator has yielded the error frame or has ended
\* (exhaustion, failure, client gone), the call is not open.
C5_UpstreamReleasedOnEveryExit ==
    \A r \in Reqs :
        /\ pc[r] \in {"done", "erryield", "rejected", "idle", "created"} => upstream[r] # "open"
        /\ pc[r] = "done" /\ npulls[r] > 0 => upstream[r] = "closed"

C5_Witness ==
    /\ ending["r1"] = "disconnected"
    /\ Len(out["r1"]) = 1
    /\ fault["r1"] = NoFault
    /\ upstream["r1"] = "closed"

\* C6: with the async client initialized, a stream request is answered with
\* status 200 and no except clause of stream_message is taken, whatever the
\* upstream does; an upstream failure shows as the last frame, an error frame.
C6_UpstreamFailureIsInBand ==
    \A r \in Reqs :
        client = "set" /\ pc[r] # "idle" =>
            /\ status[r] = 200
            /\ handler[r] = "none"
            /\ fault[r].site # "none" =>
                   /\ Len(out[r]) > 0
                   /\ IsErrorFrame(out[r][Len(out[r])], fault[r].exc)

C6_Witness ==
    /\ fault["r1"].site = "open"
    /\ status["r1"] = 200
    /\ Len(out["r1"]) = 1
    /\ pulled["r1"] = <<>>

\* C7 as claimed: every accepted stream request opens exactly one upstream
\* call with the request's parameters.
C7_OneCallForEveryAcceptedRequest ==
    \A r \in Reqs :
        /\ Len(calls[r]) <= 1
        /\ status[r] = 200 /\ pc[r] = "done" =>
               /\ Len(calls[r]) = 1
               /\ calls[r][1] = StreamParams(reqParams[r])

\* C7 amended: a stream request never opens more than one upstream call and
\* none after a failure; an accepted request opens exactly one, with the
\* request's parameters, when its response body is first pulled, and none
\* only while, or if, the body is never pulled (the client went away first).
C7_OneCallOnceTheBodyIsPulled ==
    \A r \in Reqs :
        /\ Len(calls[r]) <= 1
        /\ Len(calls[r]) = 1 =>
               /\ status[r] = 200
               /\ Keys(calls[r][1]) = Keys(StreamParams(reqParams[r]))
               /\ calls[r][1] = StreamParams(reqParams[r])
        /\ status[r] = 200 /\ Len(calls[r]) = 0 =>
               /\ out[r] = <<>> /\ npulls[r] = 0 /\ fault[r] = NoFault
               /\ \/ pc[r] = "created"
                  \/ pc[r] = "done" /\ ending[r] = "disconnected"

C7_Witness ==
    /\ fault["r1"].site = "pull"
    /\ pc["r1"] = "done"
    /\ Len(calls["r1"]) = 1
    /\ Len(pulled["r1"]) = 1

(***************************************************************************)
(* Properties of the normalizer                                            *)
(***************************************************************************)
Formatted == fmtResult # Pending

Field(d, k) == Lookup(d.items, k)

IsObj(o) == o.cls = "obj"

HasAll(o, names) == IsObj(o) /\ \A a \in names : hasattr(o, a)

\* C3: _format_event never raises, whatever the event: every call returns a
\* normalized mapping.
C3_FormatNeverRaises ==
    Formatted => fmtResult.cls = "dict"

\* the source fields the table of kinds takes for granted are there
WellFormed(event) ==
    CASE EventKindIs(event, "text") -> hasattr(event, "text")
      [] EventKindIs(event, "content_block_start") ->
            hasattr(event, "index") /\ HasAll(getattr(event, "content_block", PyNone), {"type"})
      [] EventKindIs(event, "content_block_delta") ->
            hasattr(event, "index") /\ HasAll(getattr(event, "delta", PyNone), {"type"})
      [] EventKindIs(event, "content_block_stop") ->
            /\ hasattr(event, "index")
            /\ hasattr(event, "content_block") => IsObj(Attr(event, "content_block"))
      [] EventKindIs(event, "message_start") ->
            HasAll(getattr(event, "message", PyNone), {"id", "type", "role", "model"})
      [] EventKindIs(event, "message_delta") ->
            /\ IsObj(getattr(event, "delta", PyNone))
            /\ hasattr(event, "usage") => Attr(event, "usage").cls \in {"dict", "obj"}
      [] EventKindIs(event, "message_stop") ->
            hasattr(event, "message") => IsObj(Attr(event, "message"))
      [] OTHER -> TRUE

Counters ==
    <<"input_tokens", "output_tokens", "cache_creation_input_tokens",
      "cache_read_input_tokens">>

\* the fields the table lists for the event's kind, each copied from its
\* source field or set to its default
TableFields(event, result) ==
    CASE EventKindIs(event, "text") ->
            /\ Keys(result.items) = <<"type", "text", "snapshot">>
            /\ Field(result, "text") = Attr(event, "text")
            /\ Field(result, "snapshot") = getattr(event, "snapshot", PyStr(""))
      [] EventKindIs(event, "input_json") ->
            /\ Keys(result.items) = <<"type", "partial_json", "snapshot">>
            /\ Field(result, "partial_json") = getattr(event, "partial_json", PyStr(""))
            /\ Field(result, "snapshot") = getattr(event, "snapshot", PyStr(""))
      [] EventKindIs(event, "content_block_start") ->
            LET block == Attr(event, "content_block")
                got == Field(result, "content_block")
            IN /\ Keys(result.items) = <<"type", "index", "content_block">>
               /\ Field(result, "index") = Attr(event, "index")
               /\ Keys(got.items) = <<"type", "text", "id", "name", "input">>
               /\ Field(got, "type") = Attr(block, "type")
               /\ Field(got, "text") = getattr(block, "text", PyStr(""))
               /\ \A a \in {"id", "name", "input"} :
                      Field(got, a) = getattr(block, a, PyNone)
      [] EventKindIs(event, "content_block_delta") ->
            LET delta == Attr(event, "delta")
                got == Field(result, "delta")
            IN /\ Keys(result.items) = <<"type", "index", "delta">>
               /\ Field(result, "index") = Attr(event, "index")
               /\ Keys(got.items) = <<"type", "text", "partial_json">>
               /\ Field(got, "type") = Attr(delta, "type")
               /\ \A a \in {"text", "partial_json"} :
                      Field(got, a) = getattr(delta, a, PyStr(""))
      [] EventKindIs(event, "content_block_stop") ->
            /\ Keys(result.items) = <<"type", "index", "content_block">>
            /\ Field(result, "index") = Attr(event, "index")
            /\ Field(result, "content_block") =
                   IF hasattr(event, "content_block")
                   THEN PyDict(Attr(event, "content_block").attrs) ELSE PyNone
      [] EventKindIs(event, "message_start") ->
            LET message == Attr(event, "message")
                got == Field(result, "message")
            IN /\ Keys(result.items) = <<"type", "message">>
               /\ Keys(got.items) = <<"id", "type", "role", "model", "content",
                                      "stop_reason", "stop_sequence", "usage">>
               /\ \A a \in {"id", "type", "role", "model"} :
                      Field(got, a) = Attr(message, a)
               /\ Field(got, "content") = PyList(<<>>)
               /\ Keys(Field(got, "usage").items) = Counters
               /\ \A k \in 1..4 :
                      Field(Field(got, "usage"), Counters[k]) =
                          getattr(getattr(message, "usage", PyNone), Counters[k], PyInt(0))
      [] EventKindIs(event, "message_delta") ->
            result = ExpectedMessageDelta(event)
      [] EventKindIs(event, "message_stop") ->
            /\ Keys(result.items) = <<"type", "message">>
            /\ Field(result, "message") =
                   IF hasattr(event, "message")
                   THEN PyDict(Attr(event, "message").attrs) ELSE PyNone
      [] EventKindIs(event, "ping") ->
            Keys(result.items) = <<"type">>

\* C8: for each of the nine enumerated kinds the normalized event has exactly
\* the fields of the table, each copied from its source field, each absent
\* optional source field replaced by its default.
C8_EnumeratedKindsHaveTableFields ==
    /\ Formatted
    /\ \E k \in EnumeratedKinds : EventKindIs(fmtEvent, k)
    /\ WellFormed(fmtEvent)
    => /\ fmtResult.cls = "dict"
       /\ Field(fmtResult, "type") = Attr(fmtEvent, "type")
       /\ TableFields(fmtEvent, fmtResult)

\* C9: the normalized message of a message_start event has content [], null
\* stop_reason and stop_sequence, and four integer usage counters, each the
\* source value when the source has one and 0 when the usage object or the
\* counter is missing or null.
C9_MessageStartCountersAreIntegers ==
    /\ Formatted
    /\ EventKindIs(fmtEvent, "message_start")
    /\ WellFormed(fmtEvent)
    => LET message == Attr(fmtEvent, "message")
           source == getattr(message, "usage", PyNone)
           got == Field(fmtResult, "message")
       IN /\ Field(got, "content") = PyList(<<>>)
          /\ Field(got, "stop_reason") = PyNone
          /\ Field(got, "stop_sequence") = PyNone
          /\ \A k \in 1..4 :
                 LET counter == Field(Field(got, "usage"), Counters[k]) IN
                 /\ counter.cls = "int"
                 /\ counter = IF getattr(source, Counters[k], PyNone).cls = "int"
                              THEN Attr(source, Counters[k]) ELSE PyInt(0)

\* C10: an event of a kind outside the nine is returned as {type: <kind>,
\* data: <str(event)>}, and an event with no type attribute as
\* {type: "unknown", data: <str(event)>}; neither raises.
C10_FallbackKeepsTheEvent ==
    /\ Formatted
    /\ ~ \E k \in EnumeratedKinds : EventKindIs(fmtEvent, k)
    => /\ fmtResult.cls = "dict"
       /\ Keys(fmtResult.items) = <<"type", "data">>
       /\ Field(fmtResult, "data") = [cls |-> "str", repr |-> fmtEvent]
       /\ Field(fmtResult, "type") =
              IF IsObj(fmtEvent) /\ HasKey(fmtEvent.attrs, "type")
              THEN Lookup(fmtEvent.attrs, "type") ELSE PyStr("unknown")

C10_Witness ==
    /\ Formatted
    /\ fmtEvent = PyObj(<< <<"type", PyStr("thinking")>>, <<"text", PyStr("Hi")>> >>)
    /\ Field(fmtResult, "type") = PyStr("thinking")

(***************************************************************************)
(* Reading a frame back: json.loads on the payload of a frame              *)
(***************************************************************************)
RECURSIVE ParseValue(_, _)
RECURSIVE ParseMembers(_, _, _)
RECURSIVE ParseElements(_, _, _)
\* the members of an object from token i on, up to its closing brace
ParseMembers(toks, i, acc) ==
    IF toks[i].tok = "}" THEN [val |-> PyDict(acc), next |-> i + 1]
    ELSE IF toks[i].tok = "," THEN ParseMembers(toks, i + 1, acc)
    ELSE LET member == ParseValue(toks, i + 2) IN
         ParseMembers(toks, member.next, Append(acc, <<toks[i].s, member.val>>))

\* the elements of an array from token i on, up to its closing bracket
ParseElements(toks, i, acc) ==
    IF toks[i].tok = "]" THEN [val |-> PyList(acc), next |-> i + 1]
    ELSE IF toks[i].tok = "," THEN ParseElements(toks, i + 1, acc)
    ELSE LET element == ParseValue(toks, i) IN
         ParseElements(toks, element.next, Append(acc, element.val))

\* the value that starts at token i, and the position after it
ParseValue(toks, i) ==
    CASE toks[i].tok = "null" -> [val |-> PyNone, next |-> i + 1]
      [] toks[i].tok = "int" -> [val |-> PyInt(toks[i].i), next |-> i + 1]
      [] toks[i].tok = "str" ->
            [val |-> IF "repr" \in DOMAIN toks[i]
                     THEN [cls |-> "str", repr |-> toks[i].repr]
                     ELSE PyStr(toks[i].s),
             next |-> i + 1]
      [] toks[i].tok = "{" -> ParseMembers(toks, i + 1, <<>>)
      [] toks[i].tok = "[" -> ParseElements(toks, i + 1, <<>>)

\* json.loads of a token sequence
json_loads(toks) == ParseValue(toks, 1).val

\* the payload of a frame: the text between 'data: ' and the blank line
Payload(frame) == frame.json

\* the frames of out[r] that come from events (all but a terminal error frame)
EventFrames(r) == IF fault[r] = NoFault THEN Len(out[r]) ELSE Len(out[r]) - 1

\* C11: the payload of every frame, JSON-decoded, is a mapping; the type of
\* the k-th event frame is the kind of the k-th event, or "unknown" when the
\* event has no type attribute.
C11_DecodedTypeIsTheEventKind ==
    \A r \in Reqs : \A k \in 1..Len(out[r]) :
        LET decoded == json_loads(Payload(out[r][k])) IN
        /\ out[r][k].prefix = "data: " /\ out[r][k].suffix = "\n\n"
        /\ decoded.cls = "dict"
        /\ HasKey(decoded.items, "type")
        /\ k <= EventFrames(r) =>
               Lookup(decoded.items, "type") =
                   IF pulled[r][k].cls = "obj" /\ HasKey(pulled[r][k].attrs, "type")
                   THEN Lookup(pulled[r][k].attrs, "type") ELSE PyStr("unknown")

C11_Witness ==
    /\ Len(out["r1"]) = 3
    /\ fault["r1"] = NoFault
    /\ pulled["r1"][1] = PyObj(<<>>)
    /\ pulled["r1"][2] = PyObj(<< <<"type", PyStr("ping")>> >>)
    /\ Lookup(json_loads(Payload(out["r1"][3])).items, "type") = PyStr("message_delta")

\* C12: the terminal error frame has exactly the fields type = "error" and
\* error = the message of the exception that was raised; one text event and
\* then ConnectionReset gives the text frame and {type: error, error:
\* ConnectionReset}.
C12_ErrorFrameCarriesTheMessage ==
    \A r \in Reqs :
        /\ fault[r] # NoFault =>
               json_loads(Payload(out[r][Len(out[r])])) =
                   PyDict(<< <<"type", PyStr("error")>>,
                             <<"error", PyStr(fault[r].exc.msg)>> >>)
        /\ /\ Len(pulled[r]) = 1
           /\ EventKindIs(pulled[r][1], "text")
           /\ fault[r] = [site |-> "pull", exc |-> Raise("ConnectionReset", "ConnectionReset")]
           => /\ Len(out[r]) = 2
              /\ json_loads(Payload(out[r][1])) =
                     PyDict(<< <<"type", PyStr("text")>>, <<"text", PyStr("Hi")>>,
                               <<"snapshot", PyStr("")>> >>)
              /\ json_loads(Payload(out[r][2])) =
                     PyDict(<< <<"type", PyStr("error")>>,
                               <<"error", PyStr("ConnectionReset")>> >>)

C12_Witness ==
    /\ Len(pulled["r1"]) = 1
    /\ EventKindIs(pulled["r1"][1], "text")
    /\ fault["r1"] = [site |-> "pull", exc |-> Raise("ConnectionReset", "ConnectionReset")]
    /\ ending["r1"] = "error"

\* C18: the relay holds at most one event that it has not handed on: the
\* events pulled exceed the frames emitted by at most one; an event is
\* pulled only when every earlier one has its frame emitted, and the pull
\* position is entered only from the opening of the call or from the end of
\* the pacing sleep, which is entered only from the yield of a frame.
C18_NoMoreThanOneInHand ==
    \A r \in Reqs : Len(pulled[r]) - Len(out[r]) <= 1

C18_PullFollowsYieldAndSleep ==
    \A r \in Reqs :
        /\ pulled'[r] # pulled[r] =>
               /\ pc[r] = "pull"
               /\ Len(out[r]) = Len(pulled[r])
               /\ Len(pulled'[r]) = Len(pulled[r]) + 1
        /\ (pc'[r] = "pull" /\ pc[r] # "pull") => pc[r] \in {"created", "sleep"}
        /\ (pc'[r] = "sleep" /\ pc[r] # "sleep") => pc[r] = "yield"
        /\ (pc[r] = "yield" /\ pc'[r] # "yield") => pc'[r] \in {"sleep", "done"}

C18_SingleItemHandoff ==
    [] C18_NoMoreThanOneInHand /\ [][C18_PullFollowsYieldAndSleep]_vars

C18_Witness ==
    /\ pc["r1"] = "pull"
    /\ Len(pulled["r1"]) = 2
    /\ Len(out["r1"]) = 2
    /\ npulls["r1"] = 2

\* C19: in every stream at most one frame has type "error", and a frame of
\* type "error" is the last frame of the stream.
C19_ErrorFrameIsUniqueAndLast ==
    \A r \in Reqs : \A k \in 1..Len(out[r]) :
        Lookup(json_loads(Payload(out[r][k])).items, "type") = PyStr("error")
            => k = Len(out[r])

(***************************************************************************)
(* Properties of the non-streaming endpoints                               *)
(***************************************************************************)
\* the endpoints whose handler checks the synchronous client
ClientEndpoints ==
    { "create_message", "count_tokens", "list_models", "get_model_info", "create_batch",
      "retrieve_batch", "list_batches", "cancel_batch", "delete_batch",
      "get_batch_results" }

\* the endpoints whose handler calls the upstream
UpstreamEndpoints == ClientEndpoints \ {"list_models", "get_model_info"}

\* with the clients missing, every answer of an endpoint that needs one has
\* the given status and no upstream call was made for it
MissingClientAnswers(code) ==
    /\ (syncClient = "None" /\ unary.endpoint \in ClientEndpoints) =>
           /\ unary.status = code
           /\ unary.sent = <<>>
    /\ \A r \in Reqs :
           (client = "None" /\ pc[r] = "rejected") =>
               /\ status[r] = code
               /\ calls[r] = <<>>
               /\ npulls[r] = 0

\* C13 as stated: with the upstream client missing, every endpoint that
\* needs it answers with the service-unavailable status (503) and makes no
\* upstream call.
C13_MissingClientIsServiceUnavailable == MissingClientAnswers(503)

\* C13 as amended: with the upstream client missing, every endpoint that
\* needs it answers with status 500, with a detail that names the missing
\* client, and makes no upstream call.
C13_MissingClientIsInternalError ==
    /\ MissingClientAnswers(500)
    /\ (syncClient = "None" /\ unary.endpoint \in ClientEndpoints) =>
           unary.body \in
               { PyDict(<< <<"detail", PyStr("Anthropic client not initialized")>> >>),
                 PyDict(<< <<"detail",
                     [cls |-> "str", literal |-> "Internal server error: ",
                      str |-> [cls |-> "str", status_code |-> 500, sep |-> ": ",
                               detail |-> PyStr("Anthropic client not initialized")]]>> >>) }

C13_Witness ==
    /\ app = "unmanaged"
    /\ unary.endpoint = "create_batch"
    /\ unary.status = 500
    /\ pc["r1"] = "rejected"

\* C14: a failed request of an endpoint that calls the upstream is answered
\* by the class of the error: 400 with the provider's message for a provider
\* error, 500 with the message for any other failure; no other status occurs.
C14_StatusFollowsErrorClass ==
    unary.endpoint \in UpstreamEndpoints =>
        /\ unary.status \in {200, 400, 500}
        /\ unary.status # 200 => Keys(unary.body.items) = <<"detail">>
        /\ (unary.sent # <<>> /\ IsRaise(unary.outcome)) =>
               IF unary.outcome.exc \in {"APIError", "RateLimitError"}
               THEN /\ unary.status = 400
                    /\ unary.body = PyDict(<< <<"detail", PyStr(unary.outcome.msg)>> >>)
               ELSE /\ unary.status = 500
                    /\ unary.body =
                           PyDict(<< <<"detail",
                               [cls |-> "str", literal |-> "Internal server error: ",
                                str |-> PyStr(unary.outcome.msg)]>> >>)
        /\ (unary.sent = <<>> \/ ~IsRaise(unary.outcome)) => unary.status \in {200, 500}

C14_Witness ==
    /\ unary.endpoint = "get_batch_results"
    /\ unary.outcome = Raise("RateLimitError", "rate limited")
    /\ unary.status = 400

\* C15: every non-streaming endpoint that answers with the envelope answers
\* both outcomes with it: success true, data set and error null for a
\* success; success false and error set for a failure.
C15_BothOutcomesInTheEnvelope ==
    unary.endpoint \in ClientEndpoints =>
        /\ unary.body.cls = "dict"
        /\ \A name \in {"success", "data", "error"} : HasKey(unary.body.items, name)
        /\ IF unary.status = 200
           THEN /\ Lookup(unary.body.items, "success") = PyBool(TRUE)
                /\ Lookup(unary.body.items, "data") # PyNone
                /\ Lookup(unary.body.items, "error") = PyNone
           ELSE /\ Lookup(unary.body.items, "success") = PyBool(FALSE)
                /\ Lookup(unary.body.items, "error") # PyNone

\* what C16 says of a state in which requests are answered
ClientsInitialized ==
    /\ syncClient = "set"
    /\ client = "set"
    /\ unary.endpoint = "health_check" =>
           Lookup(unary.body.items, "clients_initialized") = PyBool(TRUE)
    /\ unary.endpoint \in UpstreamEndpoints => unary.sent # <<>>
    /\ unary.endpoint = "list_models" => unary.status = 200
    /\ unary.endpoint = "get_model_info" => unary.status \in {200, 404}
    /\ \A r \in Reqs : pc[r] # "rejected"

Forwards(params, request) ==
    /\ \A k \in 1..Len(params) :
           /\ params[k][1] \in DOMAIN request
           /\ params[k][2] = request[params[k][1]]
           /\ \A j \in 1..Len(params) : params[j][1] = params[k][1] => j = k
    /\ \A name \in {"model", "messages", "max_tokens"} : HasKey(params, name)
    /\ \A name \in {"temperature", "top_p", "top_k"} :
           HasKey(params, name) <=> request[name] # PyNone
    /\ \A name \in {"stop_sequences", "system", "metadata", "tools", "tool_choice"} :
           HasKey(params, name) <=>
               request[name] \notin {PyNone, PyStr(""), PyList(<<>>), PyDict(<<>>)}

\* C20: create_message and stream_message forward the same parameters for
\* the same request: model, messages and max_tokens always; temperature,
\* top_p and top_k exactly when not null; stop_sequences, system, metadata,
\* tools and tool_choice exactly when non-empty; and no other key.
C20_SameParametersForwarded ==
    /\ (unary.endpoint = "create_message" /\ unary.sent # <<>>) =>
           /\ Len(unary.sent) = 1
           /\ unary.sent[1][1] = "messages.create"
           /\ unary.sent[1][2].cls = "dict"
           /\ Forwards(unary.sent[1][2].items, apiRequest)
    /\ calls["r1"] # <<>> =>
           /\ Len(calls["r1"]) = 1
           /\ Forwards(calls["r1"][1], apiRequest)
    /\ (unary.endpoint = "create_message" /\ unary.sent # <<>> /\ calls["r1"] # <<>>) =>
           unary.sent[1][2].items = calls["r1"][1]

C20_Witness ==
    /\ unary.endpoint = "create_message"
    /\ unary.sent # <<>>
    /\ calls["r1"] # <<>>
    /\ apiRequest.temperature = PyInt(0)
    /\ apiRequest.top_k = PyNone
    /\ apiRequest.system = PyStr("be brief")
    /\ apiRequest.tools = PyList(<<>>)
    /\ Keys(calls["r1"][1]) = <<"model", "messages", "max_tokens", "temperature", "system">>

(***************************************************************************)
(* Properties of concurrent streams                                        *)
(***************************************************************************)
\* the relay state of request r
StreamOf(r) ==
    <<pc[r], status[r], handler[r], reqParams[r], calls[r], upstream[r], pulled[r],
      npulls[r], out[r], ending[r], fault[r]>>

\* every frame of r is the normalization of the event of r's own upstream
\* call at the same position, or the error frame of r's own failure
OwnFramesOnly(r) ==
    /\ Len(calls[r]) <= 1
    /\ Len(out[r]) = IF fault[r] = NoFault THEN Len(pulled[r])
                     ELSE IF fault[r].site = "event" THEN Len(pulled[r])
                     ELSE Len(pulled[r]) + 1
    /\ \A k \in 1..EventFrames(r) :
           /\ pulled[r][k] \in ConcEvents(r)
           /\ out[r][k] = FrameOf(_format_event(pulled[r][k]))
           /\ Lookup(json_loads(Payload(out[r][k])).items, "text") = PyStr(r)
    /\ fault[r] # NoFault =>
           /\ out[r][Len(out[r])] = ErrorFrame(fault[r].exc)
           /\ fault[r].site = "event" =>
                  fault[r].exc = _format_event(pulled[r][Len(pulled[r])])

\* a step of one request leaves the stream of every other request as it is
OneStreamPerStep ==
    \A r \in Reqs : \A q \in Reqs \ {r} :
        StreamOf(r)' # StreamOf(r) => StreamOf(q)' = StreamOf(q)

\* C17: under every interleaving of two concurrent stream requests each has
\* its own upstream call and relay: the frames of a response are the ordered
\* normalization of its own upstream events, no frame of one request is on
\* the response of the other, and a failure or disconnect of one neither
\* ends nor alters the stream of the other.
C17_StreamsAreIndependent ==
    [] (\A r \in Reqs : OwnFramesOnly(r)) /\ [][OneStreamPerStep]_vars

C17_Witness ==
    /\ ending["r1"] = "error"
    /\ fault["r1"].site = "pull"
    /\ Len(out["r1"]) = 2
    /\ ending["r2"] = "exhausted"
    /\ Len(out["r2"]) = 3
    /\ npulls["r2"] > npulls["r1"]

(***************************************************************************)
(* Properties of the model endpoints                                       *)
(***************************************************************************)
\* the entries of the list of list_models whose id is model_id
ListedAs(model_id) ==
    { static_models[k] : k \in { j \in 1..Len(static_models) :
          Lookup(static_models[j].items, "id") = PyStr(model_id) } }

\* C21: with an initialized client, get_model_info(id) succeeds exactly for
\* the ids that list_models returns, with the record of the list entry of
\* that id (four fields, its id the requested one); every other id is
\* answered 404 "Model <id> not found", not 500.
C21_ModelEndpointsAgree ==
    syncClient = "set" =>
        /\ unary.endpoint = "list_models" =>
               /\ unary.status = 200
               /\ unary.body =
                      PyDict(<< <<"success", PyBool(TRUE)>>,
                                <<"data", PyList(static_models)>>,
                                <<"error", PyNone>> >>)
        /\ unary.endpoint = "get_model_info" =>
               LET listed == ListedAs(unary.arg.s) IN
               /\ Cardinality(listed) <= 1
               /\ unary.status = 200 <=> listed # {}
               /\ listed # {} =>
                      /\ Lookup(unary.body.items, "success") = PyBool(TRUE)
                      /\ Lookup(unary.body.items, "data") \in listed
                      /\ Lookup(unary.body.items, "error") = PyNone
                      /\ Keys(Lookup(unary.body.items, "data").items) =
                             <<"id", "type", "display_name", "created_at">>
                      /\ Lookup(Lookup(unary.body.items, "data").items, "id") = unary.arg
               /\ listed = {} =>
                      /\ unary.status = 404
                      /\ unary.body =
                             PyDict(<< <<"detail",
                                 [cls |-> "str", literal |-> "Model ",
                                  model_id |-> unary.arg.s, tail |-> " not found"]>> >>)

C21_Witness ==
    /\ syncClient = "set"
    /\ unary.endpoint = "get_model_info"
    /\ unary.arg = PyStr("claude-2")
    /\ unary.status = 404

====
